---------------------------- MODULE Spec2Model ----------------------------
(***************************************************************************)
(* A model of the pell991 crate: the continued-fraction search for the     *)
(* fundamental solution of x^2 - D*y^2 = 1 (pell_min_solution), the binary *)
(* exponentiation in Z[sqrt D] (pell_solution_k), the batch generator      *)
(* (pell_solutions), the verifier and the integer square root.             *)
(*                                                                         *)
(* The crate's BigInt values are modelled as sign-magnitude numbers with   *)
(* little-endian limbs, so that no value of the program is cut to the      *)
(* model checker's machine integers.                                       *)
(***************************************************************************)
EXTENDS Integers, Sequences, FiniteSets, TLC

(***************************************************************************)
(* Bounds of the model.                                                    *)
(***************************************************************************)
\* D ranges over 0..MaxD
MaxD == 21
\* k ranges over 0..MaxK
MaxK == 7
\* count ranges over 0..MaxCount
MaxCount == 4
\* the arbitrary (x1, y1) passed to pell_solution_k range over -MaxC..MaxC
MaxC == 1
\* cap on the iterations of the continued-fraction loop (the code has none)
MaxIter == 10
\* radix of a limb of an arbitrary-precision integer
Base == 10000
\* bits of the unsigned integer type of utils.rs in this model (u64 has 64)
WordBits == 8
\* the small x and y passed to verify_pell_solution range over -MaxV..MaxV
MaxV == 3
\* next() is called at most MaxNext times between two reset()
MaxNext == 4

(***************************************************************************)
(* num_bigint::BigInt: arbitrary-precision signed integers.                *)
(* A value is [sign |-> -1 | 0 | 1, mag |-> limbs], least significant limb *)
(* first, no most-significant zero limb; zero is [sign |-> 0, mag |-> <<>>]*)
(* The representation is canonical: equal values are equal records.        *)
(***************************************************************************)
RECURSIVE MagFromNat(_)
MagFromNat(n) ==
    IF n = 0 THEN << >> ELSE << n % Base >> \o MagFromNat(n \div Base)

RECURSIVE MagToNat(_)
MagToNat(a) ==
    IF a = << >> THEN 0 ELSE Head(a) + Base * MagToNat(Tail(a))

RECURSIVE MagNorm(_)
MagNorm(a) ==
    IF a = << >> THEN << >>
    ELSE IF a[Len(a)] = 0 THEN MagNorm(SubSeq(a, 1, Len(a) - 1))
    ELSE a

RECURSIVE MagAddC(_, _, _)
MagAddC(a, b, c) ==
    IF a = << >> /\ b = << >>
    THEN IF c = 0 THEN << >> ELSE << c >>
    ELSE LET x == IF a = << >> THEN 0 ELSE Head(a)
             y == IF b = << >> THEN 0 ELSE Head(b)
             s == x + y + c
             ta == IF a = << >> THEN << >> ELSE Tail(a)
             tb == IF b = << >> THEN << >> ELSE Tail(b)
         IN  << s % Base >> \o MagAddC(ta, tb, s \div Base)

MagAdd(a, b) == MagAddC(a, b, 0)

\* -1, 0, 1 as a < b, a = b, a > b
RECURSIVE MagCmpFrom(_, _, _)
MagCmpFrom(a, b, i) ==
    IF i = 0 THEN 0
    ELSE IF a[i] < b[i] THEN -1
    ELSE IF a[i] > b[i] THEN 1
    ELSE MagCmpFrom(a, b, i - 1)

MagCmp(a, b) ==
    IF Len(a) < Len(b) THEN -1
    ELSE IF Len(a) > Len(b) THEN 1
    ELSE MagCmpFrom(a, b, Len(a))

\* a - b for a >= b
RECURSIVE MagSubB(_, _, _)
MagSubB(a, b, w) ==
    IF a = << >> THEN << >>
    ELSE LET y == IF b = << >> THEN 0 ELSE Head(b)
             tb == IF b = << >> THEN << >> ELSE Tail(b)
             s == Head(a) - y - w
         IN  IF s < 0
             THEN << s + Base >> \o MagSubB(Tail(a), tb, 1)
             ELSE << s >> \o MagSubB(Tail(a), tb, 0)

MagSub(a, b) == MagNorm(MagSubB(a, b, 0))

RECURSIVE MagMulLimb(_, _, _)
MagMulLimb(a, l, c) ==
    IF a = << >>
    THEN IF c = 0 THEN << >> ELSE << c >>
    ELSE LET s == Head(a) * l + c
         IN  << s % Base >> \o MagMulLimb(Tail(a), l, s \div Base)

MagShift(a) == IF a = << >> THEN << >> ELSE << 0 >> \o a

RECURSIVE MagMul(_, _)
MagMul(a, b) ==
    IF a = << >> \/ b = << >> THEN << >>
    ELSE MagAdd(MagNorm(MagMulLimb(a, Head(b), 0)), MagShift(MagMul(a, Tail(b))))

BigZero == [sign |-> 0, mag |-> << >>]
BigOne == [sign |-> 1, mag |-> << 1 >>]

BigFrom(n) ==
    IF n = 0 THEN BigZero
    ELSE IF n > 0 THEN [sign |-> 1, mag |-> MagFromNat(n)]
    ELSE [sign |-> -1, mag |-> MagFromNat(-n)]

\* the integer a BigInt stands for (used on values that fit a machine integer)
BigToInt(a) == a.sign * MagToNat(a.mag)

BigNeg(a) == [sign |-> -a.sign, mag |-> a.mag]

BigAdd(a, b) ==
    IF a.sign = 0 THEN b
    ELSE IF b.sign = 0 THEN a
    ELSE IF a.sign = b.sign THEN [sign |-> a.sign, mag |-> MagAdd(a.mag, b.mag)]
    ELSE LET c == MagCmp(a.mag, b.mag)
         IN  IF c = 0 THEN BigZero
             ELSE IF c > 0 THEN [sign |-> a.sign, mag |-> MagSub(a.mag, b.mag)]
             ELSE [sign |-> b.sign, mag |-> MagSub(b.mag, a.mag)]

BigSub(a, b) == BigAdd(a, BigNeg(b))

BigMul(a, b) ==
    IF a.sign = 0 \/ b.sign = 0 THEN BigZero
    ELSE [sign |-> a.sign * b.sign, mag |-> MagMul(a.mag, b.mag)]

\* a < b
BigLt(a, b) == BigSub(a, b).sign = -1

\* num_traits::One::is_one
BigIsOne(a) == a = BigOne


(***************************************************************************)
(* utils.rs                                                                *)
(***************************************************************************)
\* u64::MAX, at the width of this model
UMax == 2 ^ WordBits - 1

\* an unsigned result, wrapped to the width as the release build does
WrapU(v) == v % (UMax + 1)

\* iterations of the Newton loop of isqrt_u64
NewtonIters == 64

\* (n as f64).sqrt() as u64: the correctly rounded square root, truncated.
\* For the n of the solver (far below 2^52) it is the exact floor root.
FloatSqrt(n) == CHOOSE r \in 0..n : r * r <= n /\ n < (r + 1) * (r + 1)

\* (n as f64).sqrt() as u64 over the whole range: n is rounded to 53 bits
\* and the root rounded again, so the truncated value is the floor root or
\* one unit off it on either side
FloatSqrtGuesses(n) ==
    { g \in 0..UMax : g - FloatSqrt(n) \in { -1, 0, 1 } }

\* for _ in 0..64 { x_new = (x + n / x) / 2; if x_new >= x { break } x = x_new }
RECURSIVE NewtonLoop(_, _, _)
NewtonLoop(n, x, left) ==
    IF left = 0 THEN x
    ELSE LET x_new == WrapU(x + n \div x) \div 2
         IN  IF x_new >= x THEN x ELSE NewtonLoop(n, x_new, left - 1)

\* while x * x > n { x -= 1 }
RECURSIVE FloorDown(_, _)
FloorDown(n, x) == IF WrapU(x * x) > n THEN FloorDown(n, x - 1) ELSE x

\* isqrt_refine without the step to one higher
isqrt_refine_no_step_up(n, guess) ==
    LET x0 == IF guess = 0 THEN 1 ELSE guess
        x1 == NewtonLoop(n, x0, NewtonIters)
    IN  FloorDown(n, x1)

\* the part of isqrt_u64 after the small cases, from the initial guess;
\* checked_add and checked_mul give None above UMax
isqrt_refine(n, guess) ==
    LET x0 == IF guess = 0 THEN 1 ELSE guess
        x1 == NewtonLoop(n, x0, NewtonIters)
        x2 == FloorDown(n, x1)
        next == x2 + 1
    IN  IF next <= UMax /\ next * next <= UMax /\ next * next <= n
        THEN next ELSE x2

\* isqrt_u64(n), guess being the value of (n as f64).sqrt() as u64
isqrt_u64_guess(n, guess) ==
    IF n = 0 THEN 0
    ELSE IF n <= 3 THEN 1
    ELSE IF n <= 8 THEN 2
    ELSE IF n <= 15 THEN 3
    ELSE isqrt_refine(n, guess)

isqrt_u64(n) == isqrt_u64_guess(n, FloatSqrt(n))

\* is_square_u64 taking every n >= 1 with r * r <= n for a square
is_square_u64_le(n, guess) ==
    LET r == isqrt_u64_guess(n, guess) IN r * r <= n

\* is_square_u64(n), guess being the value of (n as f64).sqrt() as u64
is_square_u64_guess(n, guess) ==
    LET r == isqrt_u64_guess(n, guess) IN WrapU(r * r) = n

is_square_u64(n) == is_square_u64_guess(n, FloatSqrt(n))

is_valid_pell_d(d) == d > 1 /\ ~is_square_u64(d)

(***************************************************************************)
(* error.rs and Result                                                     *)
(***************************************************************************)
Ok(v) == [tag |-> "Ok", err |-> "", arg |-> 0, val |-> v]
Err(e, n) == [tag |-> "Err", err |-> e, arg |-> n, val |-> << >>]
\* no value returned yet
Pending == [tag |-> "Pending", err |-> "", arg |-> 0, val |-> << >>]
\* no value returned within the cap on the passes of a loop
Diverged == [tag |-> "Diverged", err |-> "", arg |-> 0, val |-> << >>]

(***************************************************************************)
(* solver.rs: pell_min_solution                                            *)
(***************************************************************************)
\* i128 division truncates toward zero
Abs(n) == IF n < 0 THEN -n ELSE n

TruncDiv(a, b) ==
    IF (a < 0) = (b < 0) THEN Abs(a) \div Abs(b) ELSE -(Abs(a) \div Abs(b))

\* MinValidate with the two checks in the other order
MinValidateSquareFirst(D) ==
    IF is_square_u64(D) THEN Err("PerfectSquare", D)
    ELSE IF D <= 1 THEN Err("InvalidD", D)
    ELSE Pending

\* the checks before the loop: the error returned, or Pending to go on
MinValidate(D) ==
    IF D <= 1 THEN Err("InvalidD", D)
    ELSE IF is_square_u64(D) THEN Err("PerfectSquare", D)
    ELSE Pending

\* CfInit with the seeds of p and q exchanged: p[-1] = 0, q[-1] = 1
CfInitSeedsExchanged(D) ==
    LET a0 == isqrt_u64(D)
        p_prev2 == BigOne
        p_prev1 == BigZero
        q_prev2 == BigZero
        q_prev1 == BigOne
    IN  [D |-> D, a0 |-> a0, m |-> 0, d |-> 1, a |-> a0,
         p_prev1 |-> p_prev1, q_prev1 |-> q_prev1,
         p |-> BigAdd(BigMul(BigFrom(a0), p_prev1), p_prev2),
         q |-> BigAdd(BigMul(BigFrom(a0), q_prev1), q_prev2)]

\* the locals when the loop is entered
CfInit(D) ==
    LET a0 == isqrt_u64(D)
        p_prev2 == BigZero
        p_prev1 == BigOne
        q_prev2 == BigOne
        q_prev1 == BigZero
    IN  [D |-> D, a0 |-> a0, m |-> 0, d |-> 1, a |-> a0,
         p_prev1 |-> p_prev1, q_prev1 |-> q_prev1,
         p |-> BigAdd(BigMul(BigFrom(a0), p_prev1), p_prev2),
         q |-> BigAdd(BigMul(BigFrom(a0), q_prev1), q_prev2)]

\* lhs = p*p - D*q*q
CfLhs(s) ==
    BigSub(BigMul(s.p, s.p), BigMul(BigMul(BigFrom(s.D), s.q), s.q))

\* CfFound accepting a norm of -1 as well
CfFoundAbs(s) == BigIsOne(CfLhs(s)) \/ BigIsOne(BigNeg(CfLhs(s)))

\* CfFound with a guard against the trivial solution that demands q > 1
CfFoundNoUnitQ(s) == BigIsOne(CfLhs(s)) /\ BigLt(BigOne, s.q)

\* the test at the top of the loop
CfFound(s) == BigIsOne(CfLhs(s))

\* CfStep without the shift of the window: p_prev1 and q_prev1 keep their
\* values
CfStepNoShift(s) ==
    LET m == s.d * s.a - s.m
        d == TruncDiv(s.D - m * m, s.d)
        a == TruncDiv(s.a0 + m, d)
        a_big == BigFrom(a)
    IN  [s EXCEPT !.m = m, !.d = d, !.a = a,
                  !.p = BigAdd(BigMul(a_big, s.p), s.p_prev1),
                  !.q = BigAdd(BigMul(a_big, s.q), s.q_prev1)]

\* CfStep with m = d * a + m
CfStepSignSlip(s) ==
    LET m == s.d * s.a + s.m
        d == TruncDiv(s.D - m * m, s.d)
        a == TruncDiv(s.a0 + m, d)
        a_big == BigFrom(a)
    IN  [s EXCEPT !.m = m, !.d = d, !.a = a,
                  !.p_prev1 = s.p, !.q_prev1 = s.q,
                  !.p = BigAdd(BigMul(a_big, s.p), s.p_prev1),
                  !.q = BigAdd(BigMul(a_big, s.q), s.q_prev1)]

\* CfStep computing d from the m of the pass before
CfStepStaleM(s) ==
    LET m == s.d * s.a - s.m
        d == TruncDiv(s.D - s.m * s.m, s.d)
        a == TruncDiv(s.a0 + m, d)
        a_big == BigFrom(a)
    IN  [s EXCEPT !.m = m, !.d = d, !.a = a,
                  !.p_prev1 = s.p, !.q_prev1 = s.q,
                  !.p = BigAdd(BigMul(a_big, s.p), s.p_prev1),
                  !.q = BigAdd(BigMul(a_big, s.q), s.q_prev1)]

\* the rest of the loop body
CfStep(s) ==
    LET m == s.d * s.a - s.m
        d == TruncDiv(s.D - m * m, s.d)
        a == TruncDiv(s.a0 + m, d)
        a_big == BigFrom(a)
    IN  [s EXCEPT !.m = m, !.d = d, !.a = a,
                  !.p_prev1 = s.p, !.q_prev1 = s.q,
                  !.p = BigAdd(BigMul(a_big, s.p), s.p_prev1),
                  !.q = BigAdd(BigMul(a_big, s.q), s.q_prev1)]

\* the loop, run to its return (cut after MaxIter passes)
RECURSIVE CfRun(_, _)
CfRun(s, left) ==
    IF CfFound(s) THEN Ok(<< s.p, s.q >>)
    ELSE IF left = 0 THEN Diverged
    ELSE CfRun(CfStep(s), left - 1)

pell_min_solution(D) ==
    IF MinValidate(D).tag = "Err" THEN MinValidate(D)
    ELSE CfRun(CfInit(D), MaxIter)

(***************************************************************************)
(* solver.rs: pell_solution_k                                              *)
(***************************************************************************)
\* the locals when the while loop is entered
ExpInit(x1, y1, k) ==
    [x |-> BigOne, y |-> BigZero, base_x |-> x1, base_y |-> y1, exp |-> k]

\* ExpStep with y computed from the x already updated in this pass
ExpStepStaleX(D, s) ==
    LET big_d == BigFrom(D)
        odd == s.exp % 2 = 1
        x == IF odd
             THEN BigAdd(BigMul(s.x, s.base_x),
                         BigMul(BigMul(big_d, s.y), s.base_y))
             ELSE s.x
        y == IF odd
             THEN BigAdd(BigMul(x, s.base_y), BigMul(s.y, s.base_x))
             ELSE s.y
    IN  [x |-> x, y |-> y,
         base_x |-> BigAdd(BigMul(s.base_x, s.base_x),
                           BigMul(BigMul(big_d, s.base_y), s.base_y)),
         base_y |-> BigMul(BigMul(BigFrom(2), s.base_x), s.base_y),
         exp |-> s.exp \div 2]

\* ExpStep with the factor 2 of the squared base missing
ExpStepNoDouble(D, s) ==
    LET big_d == BigFrom(D)
        odd == s.exp % 2 = 1
        x == IF odd
             THEN BigAdd(BigMul(s.x, s.base_x),
                         BigMul(BigMul(big_d, s.y), s.base_y))
             ELSE s.x
        y == IF odd
             THEN BigAdd(BigMul(s.x, s.base_y), BigMul(s.y, s.base_x))
             ELSE s.y
    IN  [x |-> x, y |-> y,
         base_x |-> BigAdd(BigMul(s.base_x, s.base_x),
                           BigMul(BigMul(big_d, s.base_y), s.base_y)),
         base_y |-> BigMul(s.base_x, s.base_y),
         exp |-> s.exp \div 2]

\* ExpStep multiplying the accumulator on the clear bits of exp
ExpStepEvenBit(D, s) ==
    LET big_d == BigFrom(D)
        odd == s.exp % 2 = 0
        x == IF odd
             THEN BigAdd(BigMul(s.x, s.base_x),
                         BigMul(BigMul(big_d, s.y), s.base_y))
             ELSE s.x
        y == IF odd
             THEN BigAdd(BigMul(s.x, s.base_y), BigMul(s.y, s.base_x))
             ELSE s.y
    IN  [x |-> x, y |-> y,
         base_x |-> BigAdd(BigMul(s.base_x, s.base_x),
                           BigMul(BigMul(big_d, s.base_y), s.base_y)),
         base_y |-> BigMul(BigMul(BigFrom(2), s.base_x), s.base_y),
         exp |-> s.exp \div 2]

\* ExpStep taking one off exp where the code halves it
ExpStepDecrement(D, s) ==
    LET big_d == BigFrom(D)
        odd == s.exp % 2 = 1
        x == IF odd
             THEN BigAdd(BigMul(s.x, s.base_x),
                         BigMul(BigMul(big_d, s.y), s.base_y))
             ELSE s.x
        y == IF odd
             THEN BigAdd(BigMul(s.x, s.base_y), BigMul(s.y, s.base_x))
             ELSE s.y
    IN  [x |-> x, y |-> y,
         base_x |-> BigAdd(BigMul(s.base_x, s.base_x),
                           BigMul(BigMul(big_d, s.base_y), s.base_y)),
         base_y |-> BigMul(BigMul(BigFrom(2), s.base_x), s.base_y),
         exp |-> s.exp - 1]

\* one pass of the while loop
ExpStep(D, s) ==
    LET big_d == BigFrom(D)
        odd == s.exp % 2 = 1
        x == IF odd
             THEN BigAdd(BigMul(s.x, s.base_x),
                         BigMul(BigMul(big_d, s.y), s.base_y))
             ELSE s.x
        y == IF odd
             THEN BigAdd(BigMul(s.x, s.base_y), BigMul(s.y, s.base_x))
             ELSE s.y
    IN  [x |-> x, y |-> y,
         base_x |-> BigAdd(BigMul(s.base_x, s.base_x),
                           BigMul(BigMul(big_d, s.base_y), s.base_y)),
         base_y |-> BigMul(BigMul(BigFrom(2), s.base_x), s.base_y),
         exp |-> s.exp \div 2]

RECURSIVE ExpRun(_, _)
ExpRun(D, s) == IF s.exp > 0 THEN ExpRun(D, ExpStep(D, s)) ELSE Ok(<< s.x, s.y >>)

\* KEarly without the check of k = 0
KEarlyNoZeroCheck(x1, y1, k) ==
    IF k = 1 THEN Ok(<< x1, y1 >>) ELSE Pending

\* KEarly refusing a pair with y1 = 0
KEarlyRejectsZeroY(x1, y1, k) ==
    IF k = 0 \/ y1 = BigZero THEN Err("InvalidK", k)
    ELSE IF k = 1 THEN Ok(<< x1, y1 >>)
    ELSE Pending

\* the checks before the loop: the value returned, or Pending to go on
KEarly(x1, y1, k) ==
    IF k = 0 THEN Err("InvalidK", k)
    ELSE IF k = 1 THEN Ok(<< x1, y1 >>)
    ELSE Pending

pell_solution_k(D, x1, y1, k) ==
    IF KEarly(x1, y1, k).tag # "Pending" THEN KEarly(x1, y1, k)
    ELSE ExpRun(D, ExpInit(x1, y1, k))

(***************************************************************************)
(* solver.rs: verify_pell_solution                                         *)
(***************************************************************************)
\* verify_pell_solution comparing x*x with d*y*y
VerifyNoPlusOne(d, x, y) ==
    LET lhs == BigMul(x, x)
        rhs == BigMul(BigMul(BigFrom(d), y), y)
    IN  lhs = rhs

verify_pell_solution(d, x, y) ==
    LET lhs == BigMul(x, x)
        rhs == BigAdd(BigMul(BigMul(BigFrom(d), y), y), BigOne)
    IN  lhs = rhs

(***************************************************************************)
(* The program as a state machine: a caller invokes one of the public      *)
(* functions on inputs drawn from the bounds; the loops of the solver run  *)
(* one pass per step.                                                      *)
(***************************************************************************)
VARIABLES
    pc,       \* "idle", "min_loop", "k_loop", "sols_loop", "done"
    op,       \* the function called: "none", "min", "k", "sols"
    arg,      \* its arguments: [D, x1, y1, k, count]
    cf,       \* locals of the loop of pell_min_solution
    ex,       \* locals of the loop of pell_solution_k
    sols,     \* locals of the loop of pell_solutions: [x1, y1, k, solutions]
    iters,    \* passes of the running loop made so far
    result,   \* the value returned
    it,       \* the PellSolutionIterator: [D, x1, y1, x, y, k]
    last,     \* what the latest next() returned
    run,      \* the pairs next() returned since construction or reset()
    earlier   \* the pairs next() returned before the latest reset()

iterVars == << it, last, run, earlier >>

vars == << pc, op, arg, cf, ex, sols, iters, result, it, last, run, earlier >>

NoArg == [D |-> 0, x1 |-> BigZero, y1 |-> BigZero, k |-> 0, count |-> 0,
         n |-> 0, guess |-> 0]
NoCf == [D |-> 0, a0 |-> 0, m |-> 0, d |-> 0, a |-> 0,
         p_prev1 |-> BigZero, q_prev1 |-> BigZero, p |-> BigZero, q |-> BigZero]
NoEx == [x |-> BigZero, y |-> BigZero, base_x |-> BigZero, base_y |-> BigZero,
         exp |-> 0]
NoSols == [x1 |-> BigZero, y1 |-> BigZero, k |-> 0, solutions |-> << >>]
NoIter == [D |-> 0, x1 |-> BigZero, y1 |-> BigZero, x |-> BigZero,
           y |-> BigZero, k |-> 0]

\* Option<(BigInt, BigInt)>, and the value before any call
Some(v) == [tag |-> "Some", val |-> v]
None == [tag |-> "None", val |-> << >>]
NoCall == [tag |-> "NoCall", val |-> << >>]

Init ==
    /\ pc = "idle"
    /\ op = "none"
    /\ arg = NoArg
    /\ cf = NoCf
    /\ ex = NoEx
    /\ sols = NoSols
    /\ iters = 0
    /\ result = Pending
    /\ it = NoIter
    /\ last = NoCall
    /\ run = << >>
    /\ earlier = << >>

\* the D a caller passes
DInputs == 0..MaxD

\* the (x1, y1) a caller passes to pell_solution_k: the fundamental solution
\* of D when there is one, and arbitrary small pairs
PairInputs(D) ==
    { << BigFrom(a), BigFrom(b) >> : a \in -MaxC..MaxC, b \in -MaxC..MaxC }
    \cup (IF pell_min_solution(D).tag = "Ok"
          THEN { pell_min_solution(D).val } ELSE { })

\* pell_min_solution(d_constant): entry, up to the loop
CallMin(D) ==
    /\ pc = "idle"
    /\ op' = "min"
    /\ arg' = [NoArg EXCEPT !.D = D]
    /\ iters' = 0
    /\ IF MinValidate(D).tag = "Err"
       THEN /\ result' = MinValidate(D)
            /\ pc' = "done"
            /\ cf' = cf
       ELSE /\ cf' = CfInit(D)
            /\ pc' = "min_loop"
            /\ result' = result
    /\ UNCHANGED << ex, sols >>
    /\ UNCHANGED iterVars

\* pell_min_solution: one pass of the loop
MinLoop ==
    /\ pc = "min_loop"
    /\ IF CfFound(cf)
       THEN /\ result' = Ok(<< cf.p, cf.q >>)
            /\ pc' = "done"
            /\ UNCHANGED << cf, iters >>
       ELSE /\ iters < MaxIter
            /\ cf' = CfStep(cf)
            /\ iters' = iters + 1
            /\ UNCHANGED << pc, result >>
    /\ UNCHANGED << op, arg, ex, sols >>
    /\ UNCHANGED iterVars

\* pell_solution_k(d_constant, x1, y1, k): entry, up to the loop
CallK(D, x1, y1, k) ==
    /\ pc = "idle"
    /\ op' = "k"
    /\ arg' = [NoArg EXCEPT !.D = D, !.x1 = x1, !.y1 = y1, !.k = k]
    /\ iters' = 0
    /\ IF KEarly(x1, y1, k).tag # "Pending"
       THEN /\ result' = KEarly(x1, y1, k)
            /\ pc' = "done"
            /\ ex' = ex
       ELSE /\ ex' = ExpInit(x1, y1, k)
            /\ pc' = "k_loop"
            /\ result' = result
    /\ UNCHANGED << cf, sols >>
    /\ UNCHANGED iterVars

\* pell_solution_k: one pass of the while loop, or the return after it
KLoop ==
    /\ pc = "k_loop"
    /\ IF ex.exp > 0
       THEN /\ ex' = ExpStep(arg.D, ex)
            /\ iters' = iters + 1
            /\ UNCHANGED << pc, result >>
       ELSE /\ result' = Ok(<< ex.x, ex.y >>)
            /\ pc' = "done"
            /\ UNCHANGED << ex, iters >>
    /\ UNCHANGED << op, arg, cf, sols >>
    /\ UNCHANGED iterVars

\* SolsEarly computing the fundamental solution before looking at count
SolsEarlyValidateFirst(D, count) ==
    IF pell_min_solution(D).tag = "Err" THEN pell_min_solution(D)
    ELSE IF count = 0 THEN Ok(<< >>)
    ELSE Pending

\* SolsEarly turning a failure of pell_min_solution into an empty vector
SolsEarlySwallowError(D, count) ==
    IF count = 0 THEN Ok(<< >>)
    ELSE IF pell_min_solution(D).tag = "Err" THEN Ok(<< >>)
    ELSE Pending

\* pell_solutions(d, count): what the entry returns at once, or Pending to
\* enter the for loop
SolsEarly(D, count) ==
    IF count = 0 THEN Ok(<< >>)
    ELSE IF pell_min_solution(D).tag = "Err" THEN pell_min_solution(D)
    ELSE Pending

\* SolsInit with the range of the for loop starting at 0
SolsInitFromZero(D) ==
    [x1 |-> pell_min_solution(D).val[1], y1 |-> pell_min_solution(D).val[2],
     k |-> 0, solutions |-> << >>]

\* pell_solutions: the locals when the for loop is entered
SolsInit(D) ==
    [x1 |-> pell_min_solution(D).val[1], y1 |-> pell_min_solution(D).val[2],
     k |-> 1, solutions |-> << >>]

\* SolsPush putting the new pair at the front of the vector
SolsPushFront(s, r) ==
    [s EXCEPT !.solutions = << r.val >> \o s.solutions, !.k = s.k + 1]

\* pell_solutions: the body of the for loop, on the value pell_solution_k gave
SolsPush(s, r) ==
    [s EXCEPT !.solutions = Append(s.solutions, r.val), !.k = s.k + 1]

\* pell_solutions: the for loop from locals s, to its end
RECURSIVE SolsRun(_, _, _)
SolsRun(D, s, count) ==
    IF s.k <= count
    THEN LET r == pell_solution_k(D, s.x1, s.y1, s.k)
         IN  IF r.tag = "Err" THEN r ELSE SolsRun(D, SolsPush(s, r), count)
    ELSE Ok(s.solutions)

\* pell_solutions(d, count) as a function of its arguments
pell_solutions(D, count) ==
    IF SolsEarly(D, count).tag # "Pending" THEN SolsEarly(D, count)
    ELSE SolsRun(D, SolsInit(D), count)

CallSolutions(D, count) ==
    /\ pc = "idle"
    /\ count = 0 \/ pell_min_solution(D).tag # "Diverged"
    /\ op' = "sols"
    /\ arg' = [NoArg EXCEPT !.D = D, !.count = count]
    /\ iters' = 0
    /\ IF SolsEarly(D, count).tag # "Pending"
       THEN /\ result' = SolsEarly(D, count)
            /\ pc' = "done"
            /\ sols' = sols
       ELSE /\ sols' = SolsInit(D)
            /\ pc' = "sols_loop"
            /\ result' = result
    /\ UNCHANGED << cf, ex >>
    /\ UNCHANGED iterVars

\* pell_solutions: one pass of for k in 1..=count, or the return after it
SolsLoop ==
    /\ pc = "sols_loop"
    /\ IF sols.k <= arg.count
       THEN LET r == pell_solution_k(arg.D, sols.x1, sols.y1, sols.k)
            IN  IF r.tag = "Err"
                THEN /\ result' = r
                     /\ pc' = "done"
                     /\ UNCHANGED << sols, iters >>
                ELSE /\ sols' = SolsPush(sols, r)
                     /\ iters' = iters + 1
                     /\ UNCHANGED << pc, result >>
       ELSE /\ result' = Ok(sols.solutions)
            /\ pc' = "done"
            /\ UNCHANGED << sols, iters >>
    /\ UNCHANGED << op, arg, cf, ex >>
    /\ UNCHANGED iterVars

(***************************************************************************)
(* PellSolutionIterator: new, next, reset, current_k.                      *)
(***************************************************************************)
\* IterNewEarly reporting every failure of pell_min_solution as InvalidD
IterNewEarlyAsInvalidD(D) ==
    IF pell_min_solution(D).tag = "Err" THEN Err("InvalidD", D) ELSE Pending

\* PellSolutionIterator::new(d): the error it returns, or Pending when the
\* object is built
IterNewEarly(D) ==
    IF pell_min_solution(D).tag = "Err" THEN pell_min_solution(D) ELSE Pending

\* PellSolutionIterator::new(d): the object built, current pair at the
\* fundamental solution and position 1
IterInit(D) ==
    LET f == pell_min_solution(D).val
    IN  [D |-> D, x1 |-> f[1], y1 |-> f[2], x |-> f[1], y |-> f[2], k |-> 1]

\* IterNextValue ending the sequence after the second pair
IterNextValueEnds(s) == IF s.k > 2 THEN None ELSE Some(<< s.x, s.y >>)

\* next(): the value returned, the current pair
IterNextValue(s) == Some(<< s.x, s.y >>)

\* IterAdvance computing y' from the x already advanced
IterAdvanceStaleX(s) ==
    LET x == BigAdd(BigMul(s.x1, s.x),
                    BigMul(BigMul(BigFrom(s.D), s.y1), s.y))
    IN  [s EXCEPT !.x = x,
                  !.y = BigAdd(BigMul(s.x1, s.y), BigMul(s.y1, x)),
                  !.k = s.k + 1]

\* IterRewind taking the current pair for the fundamental solution
IterRewindSeedFromCurrent(s) == [s EXCEPT !.x1 = s.x, !.y1 = s.y, !.k = 1]

\* next(): the object after the call, the current pair advanced by
\* x' = x1*x + D*y1*y, y' = x1*y + y1*x and the position by one
IterAdvance(s) ==
    [s EXCEPT !.x = BigAdd(BigMul(s.x1, s.x),
                           BigMul(BigMul(BigFrom(s.D), s.y1), s.y)),
              !.y = BigAdd(BigMul(s.x1, s.y), BigMul(s.y1, s.x)),
              !.k = s.k + 1]

\* IterRewind rewinding the position and not the current pair
IterRewindKeepCurrent(s) == [s EXCEPT !.k = 1]

\* IterRewind leaving the position where it was
IterRewindKeepPosition(s) == [s EXCEPT !.x = s.x1, !.y = s.y1]

\* reset(): the object after the call
IterRewind(s) == [s EXCEPT !.x = s.x1, !.y = s.y1, !.k = 1]

\* current_k()
current_k(s) == s.k

IterNew(D) ==
    /\ pc = "idle"
    /\ pell_min_solution(D).tag # "Diverged"
    /\ op' = "iter"
    /\ arg' = [NoArg EXCEPT !.D = D]
    /\ IF IterNewEarly(D).tag = "Err"
       THEN /\ result' = IterNewEarly(D)
            /\ pc' = "done"
            /\ it' = it
       ELSE /\ it' = IterInit(D)
            /\ pc' = "iter"
            /\ result' = result
    /\ UNCHANGED << cf, ex, sols, iters, last, run, earlier >>

IterNext ==
    /\ pc = "iter"
    /\ Len(run) < MaxNext
    /\ last' = IterNextValue(it)
    /\ run' = IF last'.tag = "Some" THEN Append(run, last'.val) ELSE run
    /\ it' = IterAdvance(it)
    /\ UNCHANGED << pc, op, arg, cf, ex, sols, iters, result, earlier >>

IterReset ==
    /\ pc = "iter"
    /\ it' = IterRewind(it)
    /\ earlier' = run
    /\ run' = << >>
    /\ last' = NoCall
    /\ UNCHANGED << pc, op, arg, cf, ex, sols, iters, result >>

\* the (x, y) a caller passes to verify_pell_solution: small pairs of either
\* sign, and the fundamental solution of D with either sign of x
VerifyInputs(D) ==
    { << BigFrom(a), BigFrom(b) >> : a \in -MaxV..MaxV, b \in -MaxV..MaxV }
    \cup (IF pell_min_solution(D).tag = "Ok"
          THEN { pell_min_solution(D).val,
                 << BigNeg(pell_min_solution(D).val[1]),
                    pell_min_solution(D).val[2] >> }
          ELSE { })

\* verify_pell_solution(d, x, y): the whole call
CallVerify(D, x, y) ==
    /\ pc = "idle"
    /\ op' = "verify"
    /\ arg' = [NoArg EXCEPT !.D = D, !.x1 = x, !.y1 = y]
    /\ result' = Ok(<< verify_pell_solution(D, x, y) >>)
    /\ pc' = "done"
    /\ UNCHANGED << cf, ex, sols, iters >>
    /\ UNCHANGED iterVars

\* isqrt_u64(n), the float square root giving guess
CallIsqrt(n, guess) ==
    /\ pc = "idle"
    /\ op' = "isqrt"
    /\ arg' = [NoArg EXCEPT !.n = n, !.guess = guess]
    /\ result' = Ok(<< isqrt_u64_guess(n, guess) >>)
    /\ pc' = "done"
    /\ UNCHANGED << cf, ex, sols, iters >>
    /\ UNCHANGED iterVars

\* is_square_u64(n), the float square root giving guess
CallIsSquare(n, guess) ==
    /\ pc = "idle"
    /\ op' = "is_square"
    /\ arg' = [NoArg EXCEPT !.n = n, !.guess = guess]
    /\ result' = Ok(<< is_square_u64_guess(n, guess) >>)
    /\ pc' = "done"
    /\ UNCHANGED << cf, ex, sols, iters >>
    /\ UNCHANGED iterVars

Next ==
    \/ \E D \in DInputs : CallMin(D)
    \/ MinLoop
    \/ \E D \in DInputs : \E xy \in PairInputs(D) : \E k \in 0..MaxK :
          CallK(D, xy[1], xy[2], k)
    \/ KLoop
    \/ \E D \in DInputs : \E count \in 0..MaxCount : CallSolutions(D, count)
    \/ SolsLoop
    \/ \E D \in DInputs : IterNew(D)
    \/ IterNext
    \/ IterReset
    \/ \E D \in DInputs : \E xy \in VerifyInputs(D) : CallVerify(D, xy[1], xy[2])
    \/ \E n \in 0..UMax : \E guess \in FloatSqrtGuesses(n) : CallIsqrt(n, guess)
    \/ \E n \in 0..UMax : \E guess \in FloatSqrtGuesses(n) :
          CallIsSquare(n, guess)

Spec == Init /\ [][Next]_vars

(***************************************************************************)
(* Properties.                                                             *)
(***************************************************************************)
\* n is the square of an integer
IsPerfectSquare(n) == \E r \in 0..n : r * r = n

\* D > 1 and D not a perfect square
ValidD(D) == D > 1 /\ ~IsPerfectSquare(D)

\* a call of pell_min_solution has returned
MinReturned == op = "min" /\ pc = "done"

\* a call of pell_solution_k has returned
KReturned == op = "k" /\ pc = "done"

\* a call of pell_solutions has returned
SolsReturned == op = "sols" /\ pc = "done"

\* C1: for every D > 1 that is not a perfect square, pell_min_solution(D)
\* returns Ok((x, y)) with x > 0, y > 0 and x*x - D*y*y = 1, so that
\* verify_pell_solution(D, x, y) is true and the pair is not (1, 0).
C1_MinSolutionSolves ==
    (MinReturned /\ ValidD(arg.D)) =>
        /\ result.tag = "Ok"
        /\ LET x == result.val[1]
               y == result.val[2]
           IN  /\ x.sign = 1
               /\ y.sign = 1
               /\ BigToInt(x) * BigToInt(x) - arg.D * BigToInt(y) * BigToInt(y) = 1
               /\ verify_pell_solution(arg.D, x, y)
               /\ << x, y >> # << BigOne, BigZero >>

\* pell_min_solution(13) has returned (649, 180) after its loop
C1_Witness ==
    /\ MinReturned
    /\ arg.D = 13
    /\ iters > 0
    /\ result = Ok(<< BigFrom(649), BigFrom(180) >>)

\* C2: the pair pell_min_solution(D) returns is minimal: no positive
\* integers (xs, ys) with xs below the returned x satisfy
\* xs*xs - D*ys*ys = 1.
C2_MinSolutionMinimal ==
    (MinReturned /\ ValidD(arg.D) /\ result.tag = "Ok") =>
        LET x == BigToInt(result.val[1])
        IN  \A xs \in 1..(x - 1) : \A ys \in 1..(x - 1) :
                xs * xs - arg.D * ys * ys # 1

\* pell_min_solution(7) has returned (8, 3), the third convergent after the
\* first
C2_Witness ==
    /\ MinReturned
    /\ arg.D = 7
    /\ iters = 3
    /\ result = Ok(<< BigFrom(8), BigFrom(3) >>)

\* C3: for every valid D the loop of pell_min_solution terminates: a call
\* on a valid D enters the loop, and in every state of the loop either the
\* test p*p - D*q*q = 1 passes, so that the call returns, or the pass count
\* is still below the cap, which the loop therefore never runs into.
C3_MinSearchTerminates ==
    /\ (op = "min" /\ ValidD(arg.D)) => pc \in {"min_loop", "done"}
    /\ pc = "min_loop" => (CfFound(cf) \/ iters < MaxIter)
    /\ MinReturned => result.tag \in {"Ok", "Err"}

\* the loop has returned after nine passes (D = 13)
C3_Witness ==
    /\ MinReturned
    /\ result.tag = "Ok"
    /\ iters = 9

\* C4: pell_min_solution rejects an invalid D before the loop starts:
\* D <= 1 gives Err(InvalidD(D)), a perfect square D > 1 gives
\* Err(PerfectSquare(D)); D = 0 and D = 1 give InvalidD, never PerfectSquare.
C4_MinRejectsInvalidD ==
    /\ (op = "min" /\ arg.D <= 1) =>
           /\ pc = "done"
           /\ result = Err("InvalidD", arg.D)
           /\ iters = 0 /\ cf = NoCf
    /\ (op = "min" /\ arg.D > 1 /\ IsPerfectSquare(arg.D)) =>
           /\ pc = "done"
           /\ result = Err("PerfectSquare", arg.D)
           /\ iters = 0 /\ cf = NoCf

\* pell_min_solution(0) has returned InvalidD(0)
C4_Witness ==
    /\ MinReturned
    /\ arg.D = 0
    /\ result = Err("InvalidD", 0)

\* C5: pell_solution_k(D, x1, y1, 0) returns Err(InvalidK(0)) for every D,
\* x1, y1, and pell_solution_k(D, x1, y1, 1) returns Ok((x1, y1)), the pair
\* passed in.
C5_KZeroAndOne ==
    /\ (op = "k" /\ arg.k = 0) =>
           (pc = "done" /\ result = Err("InvalidK", 0))
    /\ (op = "k" /\ arg.k = 1) =>
           (pc = "done" /\ result = Ok(<< arg.x1, arg.y1 >>))

\* pell_solution_k(4, -1, 1, 0) has returned InvalidK(0)
C5_Witness ==
    /\ KReturned
    /\ arg.D = 4
    /\ arg.x1 = BigFrom(-1)
    /\ arg.y1 = BigFrom(1)
    /\ arg.k = 0
    /\ result = Err("InvalidK", 0)

\* the pair reached from (x1, y1) by n applications of the linear recurrence
\* (x, y) -> (x1*x + D*y1*y, x1*y + y1*x)
RECURSIVE Recurrence(_, _, _, _)
Recurrence(D, x1, y1, n) ==
    IF n = 0 THEN << x1, y1 >>
    ELSE LET prev == Recurrence(D, x1, y1, n - 1)
         IN  << BigAdd(BigMul(x1, prev[1]),
                       BigMul(BigFrom(D), BigMul(y1, prev[2]))),
                BigAdd(BigMul(x1, prev[2]), BigMul(y1, prev[1])) >>

\* x*x - D*y*y
Norm(D, x, y) == BigSub(BigMul(x, x), BigMul(BigFrom(D), BigMul(y, y)))

\* C6: for every D, (x1, y1) and k >= 1, pell_solution_k(D, x1, y1, k) is
\* the pair obtained from (x1, y1) by k-1 applications of the linear
\* recurrence (x, y) -> (x1*x + D*y1*y, x1*y + y1*x).
C6_KEqualsRecurrence ==
    (KReturned /\ arg.k >= 1) =>
        result = Ok(Recurrence(arg.D, arg.x1, arg.y1, arg.k - 1))

\* pell_solution_k(13, 649, 180, 5) has returned after three passes
C6_Witness ==
    /\ KReturned
    /\ arg.D = 13
    /\ arg.x1 = BigFrom(649)
    /\ arg.y1 = BigFrom(180)
    /\ arg.k = 5
    /\ iters = 3
    /\ result.tag = "Ok"

\* C7: whenever x1*x1 - D*y1*y1 = 1, the pair (xk, yk) returned by
\* pell_solution_k(D, x1, y1, k) satisfies xk*xk - D*yk*yk = 1, for every
\* k >= 1.
C7_KPreservesEquation ==
    (KReturned /\ arg.k >= 1 /\ Norm(arg.D, arg.x1, arg.y1) = BigOne) =>
        /\ result.tag = "Ok"
        /\ Norm(arg.D, result.val[1], result.val[2]) = BigOne

\* pell_solution_k(2, 3, 2, 4) has returned (577, 408)
C7_Witness ==
    /\ KReturned
    /\ arg.D = 2
    /\ arg.x1 = BigFrom(3)
    /\ arg.y1 = BigFrom(2)
    /\ arg.k = 4
    /\ result = Ok(<< BigFrom(577), BigFrom(408) >>)

\* C8: for every valid D with fundamental solution (x1, y1) and every
\* k >= 1, the solution of index k+1 is above the solution of index k in
\* both coordinates.
C8_KStrictlyIncreasing ==
    (/\ KReturned
     /\ arg.k >= 1
     /\ ValidD(arg.D)
     /\ pell_min_solution(arg.D) = Ok(<< arg.x1, arg.y1 >>)) =>
        LET nxt == pell_solution_k(arg.D, arg.x1, arg.y1, arg.k + 1)
        IN  /\ result.tag = "Ok"
            /\ nxt.tag = "Ok"
            /\ BigLt(result.val[1], nxt.val[1])
            /\ BigLt(result.val[2], nxt.val[2])

\* pell_solution_k(3, 2, 1, 3) has returned (26, 15)
C8_Witness ==
    /\ KReturned
    /\ arg.D = 3
    /\ arg.x1 = BigFrom(2)
    /\ arg.y1 = BigFrom(1)
    /\ arg.k = 3
    /\ result = Ok(<< BigFrom(26), BigFrom(15) >>)

\* C9: for every valid D and count >= 1, pell_solutions(D, count) returns
\* exactly count pairs, the i-th of which (from 1) is
\* pell_solution_k(D, x1, y1, i) with (x1, y1) = pell_min_solution(D); the
\* first is the fundamental solution.
C9_SolutionsAreTheFirstCount ==
    (SolsReturned /\ ValidD(arg.D) /\ arg.count >= 1) =>
        /\ result.tag = "Ok"
        /\ Len(result.val) = arg.count
        /\ LET f == pell_min_solution(arg.D).val
           IN  /\ result.val[1] = f
               /\ \A i \in 1..arg.count :
                     Ok(result.val[i]) = pell_solution_k(arg.D, f[1], f[2], i)

\* pell_solutions(2, 3) has returned [(3, 2), (17, 12), (99, 70)]
C9_Witness ==
    /\ SolsReturned
    /\ arg.D = 2
    /\ arg.count = 3
    /\ iters = 3
    /\ result = Ok(<< << BigFrom(3), BigFrom(2) >>,
                      << BigFrom(17), BigFrom(12) >>,
                      << BigFrom(99), BigFrom(70) >> >>)

\* C10: pell_solutions(D, 0) returns Ok of the empty vector for every D,
\* at once and with no error, also when D <= 1 or D is a perfect square.
C10_SolutionsZeroCount ==
    (op = "sols" /\ arg.count = 0) =>
        /\ pc = "done"
        /\ result = Ok(<< >>)
        /\ iters = 0
        /\ sols = NoSols

\* pell_solutions(4, 0) has returned the empty vector
C10_Witness ==
    /\ SolsReturned
    /\ arg.D = 4
    /\ arg.count = 0
    /\ result = Ok(<< >>)

\* C11: for count >= 1, pell_solutions(D, count) on an invalid D returns
\* exactly the error of pell_min_solution(D) -- InvalidD(D) when D <= 1,
\* PerfectSquare(D) when D is a perfect square -- having built no vector;
\* on a valid D it returns no error, InvalidK included.
C11_SolutionsPropagateError ==
    (SolsReturned /\ arg.count >= 1) =>
        /\ ~ValidD(arg.D) =>
              /\ result = pell_min_solution(arg.D)
              /\ result = Err(IF arg.D <= 1 THEN "InvalidD" ELSE "PerfectSquare",
                              arg.D)
              /\ sols = NoSols
              /\ iters = 0
        /\ ValidD(arg.D) =>
              /\ result.tag = "Ok"
              /\ result.err # "InvalidK"

\* pell_solutions(9, 2) has returned PerfectSquare(9)
C11_Witness ==
    /\ SolsReturned
    /\ arg.D = 9
    /\ arg.count = 2
    /\ result = Err("PerfectSquare", 9)

\* a PellSolutionIterator has been constructed
IterLive == op = "iter" /\ pc = "iter"

\* C12: for a valid D and every n, the n pairs the first n calls of next()
\* return on a fresh PellSolutionIterator(D) are the elements of
\* pell_solutions(D, n), in order: the j-th call returns the j-th
\* solution and the first call the fundamental solution.
C12_IteratorEqualsSolutions ==
    (IterLive /\ ValidD(arg.D)) =>
        /\ pell_solutions(arg.D, Len(run)) = Ok(run)
        /\ \A j \in 1..Len(run) :
              run[j] = pell_solutions(arg.D, MaxNext).val[j]
        /\ Len(run) >= 1 => run[1] = pell_min_solution(arg.D).val

\* three calls of next() on PellSolutionIterator(2) have returned
\* (3, 2), (17, 12), (99, 70), and no reset() was made
C12_Witness ==
    /\ IterLive
    /\ arg.D = 2
    /\ earlier = << >>
    /\ run = << << BigFrom(3), BigFrom(2) >>,
                << BigFrom(17), BigFrom(12) >>,
                << BigFrom(99), BigFrom(70) >> >>

\* C13 as stated: for a valid D, once k - 1 >= 1 calls of next() were made,
\* the pair they have produced -- the one the latest call returned -- is
\* pell_solution_k(D, x1, y1, k).
C13_AsStated ==
    (IterLive /\ ValidD(arg.D) /\ Len(run) >= 1) =>
        LET f == pell_min_solution(arg.D).val
        IN  Ok(run[Len(run)]) = pell_solution_k(arg.D, f[1], f[2], Len(run) + 1)

\* C13: for a valid D and every k >= 1 within the bound,
\* pell_solution_k(D, x1, y1, k) is the k-th element of pell_solutions(D, k)
\* and the pair the k-th call of next() returns; after k - 1 calls it is
\* the pair the sequence holds as current, not one already returned.
C13_CrossMethodEquivalence ==
    (IterLive /\ ValidD(arg.D)) =>
        LET f == pell_min_solution(arg.D).val
        IN  /\ \A k \in 1..Len(run) :
                  /\ pell_solution_k(arg.D, f[1], f[2], k) = Ok(run[k])
                  /\ pell_solution_k(arg.D, f[1], f[2], k)
                        = Ok(pell_solutions(arg.D, k).val[k])
            /\ pell_solution_k(arg.D, f[1], f[2], Len(run) + 1)
                  = Ok(<< it.x, it.y >>)
            /\ pell_solution_k(arg.D, f[1], f[2], Len(run) + 1)
                  = Ok(pell_solutions(arg.D, Len(run) + 1).val[Len(run) + 1])

\* two calls of next() on PellSolutionIterator(3) have returned (2, 1) and
\* (7, 4), and the current pair is the third solution (26, 15)
C13_Witness ==
    /\ IterLive
    /\ arg.D = 3
    /\ run = << << BigFrom(2), BigFrom(1) >>, << BigFrom(7), BigFrom(4) >> >>
    /\ it.x = BigFrom(26)
    /\ it.y = BigFrom(15)

\* C14: current_k() is 1 on a fresh sequence, grows by one with every
\* next() and is 1 again after reset(): whatever the calls made, it is 1 +
\* the number of next() since construction or the latest reset(), and the
\* current pair is the solution of that index, which next() returns next.
C14_PositionCountsNext ==
    IterLive =>
        /\ current_k(it) = 1 + Len(run)
        /\ run = << >> => (current_k(it) = 1 /\ it.x = it.x1 /\ it.y = it.y1)
        /\ IterNextValue(it).val
              = pell_solutions(it.D, current_k(it)).val[current_k(it)]

\* on PellSolutionIterator(5): two next(), reset(), one next(); current_k()
\* is 2
C14_Witness ==
    /\ IterLive
    /\ arg.D = 5
    /\ Len(earlier) = 2
    /\ Len(run) = 1
    /\ current_k(it) = 2

\* C15: consuming n pairs, calling reset() and consuming n pairs again
\* gives the same n pairs as the first run, for every n: the i-th next()
\* after a reset() returns what the i-th next() before it returned, and
\* the first one returns the fundamental solution.
C15_ResetReplays ==
    IterLive =>
        /\ \A i \in 1..Len(run) : i <= Len(earlier) => run[i] = earlier[i]
        /\ Len(run) >= 1 => run[1] = pell_min_solution(arg.D).val
        /\ (Len(run) = 1 /\ last # NoCall) => last = Some(<< it.x1, it.y1 >>)

\* on PellSolutionIterator(7): three next(), reset(), three next(), both
\* runs giving (8, 3), (127, 48), (2024, 765)
C15_Witness ==
    /\ IterLive
    /\ arg.D = 7
    /\ Len(run) = 3
    /\ earlier = run
    /\ run[1] = << BigFrom(8), BigFrom(3) >>
    /\ run[3] = << BigFrom(2024), BigFrom(765) >>

\* C16: a constructed sequence never ends on its own: in every state
\* reached, what a call of next() returns there is Some pair and never
\* None, and every call made so far has returned one, so that n calls
\* give exactly n pairs. (next() has no precondition; IterNext is
\* disabled only by the bound MaxNext.)
C16_NeverEnds ==
    IterLive =>
        /\ IterNextValue(it).tag = "Some"
        /\ Len(IterNextValue(it).val) = 2
        /\ last # None
        /\ Len(run) = current_k(it) - 1

\* on PellSolutionIterator(2): after reset(), MaxNext calls of next() have
\* returned MaxNext pairs, the latest being Some
C16_Witness ==
    /\ IterLive
    /\ arg.D = 2
    /\ Len(earlier) = 1
    /\ Len(run) = MaxNext
    /\ last = Some(run[MaxNext])

\* C17: PellSolutionIterator::new(D) fails exactly when pell_min_solution(D)
\* fails, that is when D <= 1 or D is a perfect square, and with the same
\* error; no object then exists for next() to be called on. For every
\* valid D it succeeds, the object holding the fundamental solution.
C17_NewFailsAsMinSolution ==
    op = "iter" =>
        /\ ~ValidD(arg.D) =>
              /\ pell_min_solution(arg.D).tag = "Err"
              /\ pc = "done"
              /\ result = pell_min_solution(arg.D)
              /\ it = NoIter
              /\ run = << >>
              /\ last = NoCall
        /\ ValidD(arg.D) =>
              /\ pell_min_solution(arg.D).tag = "Ok"
              /\ pc = "iter"
              /\ result.tag # "Err"
              /\ it.D = arg.D
              /\ << it.x1, it.y1 >> = pell_min_solution(arg.D).val

\* PellSolutionIterator::new(16) has failed with PerfectSquare(16)
C17_Witness ==
    /\ op = "iter"
    /\ pc = "done"
    /\ arg.D = 16
    /\ result = Err("PerfectSquare", 16)
    /\ it = NoIter

\* C18: verify_pell_solution(D, x, y) returns true exactly when
\* x*x = D*y*y + 1 over the integers, for every D -- 0, 1 and perfect
\* squares included -- and every x and y, zero and negative included; it
\* always returns a boolean and no error.
C18_VerifyIsTheEquation ==
    (op = "verify" /\ pc = "done") =>
        LET x == BigToInt(arg.x1)
            y == BigToInt(arg.y1)
        IN  /\ result.tag = "Ok"
            /\ result.val \in { << TRUE >>, << FALSE >> }
            /\ result.val[1] <=> (x * x = arg.D * y * y + 1)

\* verify_pell_solution(4, -1, 0) has returned true
C18_Witness ==
    /\ op = "verify"
    /\ pc = "done"
    /\ arg.D = 4
    /\ arg.x1 = BigFrom(-1)
    /\ arg.y1 = BigFrom(0)
    /\ result = Ok(<< TRUE >>)

\* C19: for every n of the unsigned range -- 0, the special-cased 1..15
\* and the maximum value included -- isqrt_u64(n) returns the one r with
\* r*r <= n < (r+1)*(r+1), whichever value within one unit of the true
\* root the floating-point square root gives as the initial guess.
C19_IsqrtIsFloorRoot ==
    (op = "isqrt" /\ pc = "done") =>
        LET r == result.val[1]
        IN  /\ result.tag = "Ok"
            /\ r \in 0..UMax
            /\ r * r <= arg.n
            /\ arg.n < (r + 1) * (r + 1)
            /\ \A s \in 0..UMax :
                  (s * s <= arg.n /\ arg.n < (s + 1) * (s + 1)) => s = r

\* isqrt_u64 of the maximum value, the guess being one above the root, has
\* returned the root
C19_Witness ==
    /\ op = "isqrt"
    /\ pc = "done"
    /\ arg.n = UMax
    /\ arg.guess = FloatSqrt(UMax) + 1
    /\ result = Ok(<< FloatSqrt(UMax) >>)

\* C20: is_square_u64(n) is true exactly when isqrt_u64(n) squared is n,
\* which is exactly when n = r*r for some integer r >= 0; 0 and 1 are
\* perfect squares.
C20_IsSquareIffPerfectSquare ==
    (op = "is_square" /\ pc = "done") =>
        LET r == isqrt_u64_guess(arg.n, arg.guess)
        IN  /\ result.tag = "Ok"
            /\ result.val \in { << TRUE >>, << FALSE >> }
            /\ result.val[1] <=> (r * r = arg.n)
            /\ result.val[1] <=> IsPerfectSquare(arg.n)
            /\ arg.n \in { 0, 1 } => result.val[1]

\* is_square_u64(1) has returned true
C20_Witness ==
    /\ op = "is_square"
    /\ pc = "done"
    /\ arg.n = 1
    /\ result = Ok(<< TRUE >>)

\* the least i >= 1 at which the complete quotient (m_i + sqrt(D)) / d_i of
\* sqrt(D) has d_i = 1, counted from the quotient of index i: the length of
\* the period of the continued fraction of sqrt(D)
RECURSIVE PeriodFrom(_, _, _, _)
PeriodFrom(D, m, d, i) ==
    LET r == CHOOSE s \in 0..D : s * s <= D /\ D < (s + 1) * (s + 1)
        a == (r + m) \div d
        m_next == d * a - m
        d_next == (D - m_next * m_next) \div d
    IN  IF d_next = 1 THEN i + 1 ELSE PeriodFrom(D, m_next, d_next, i + 1)

PeriodLength(D) == PeriodFrom(D, 0, 1, 0)

\* C21 as stated: for every valid D the loop of pell_min_solution returns
\* within one period of the continued fraction of sqrt(D): its body has
\* run fewer times than the period length.
C21_AsStated ==
    (MinReturned /\ ValidD(arg.D)) => iters < PeriodLength(arg.D)

\* C21: for every valid D the loop of pell_min_solution returns within two
\* periods of the continued fraction of sqrt(D): its body has run L - 1
\* times when the period length L is even and 2L - 1 times when L is odd
\* (the convergent of index L - 1 then has p*p - D*q*q = -1).
C21_ReturnsWithinTwoPeriods ==
    (MinReturned /\ ValidD(arg.D)) =>
        LET L == PeriodLength(arg.D)
        IN  /\ result.tag = "Ok"
            /\ iters = IF L % 2 = 0 THEN L - 1 ELSE 2 * L - 1
            /\ iters < 2 * L

\* pell_min_solution(13) has returned (649, 180) after nine passes, the
\* period length of sqrt(13) being five
C21_Witness ==
    /\ MinReturned
    /\ arg.D = 13
    /\ PeriodLength(13) = 5
    /\ iters = 9
    /\ result = Ok(<< BigFrom(649), BigFrom(180) >>)

\* pell_min_solution is in its loop, on a valid D
MinInLoop == op = "min" /\ pc = "min_loop" /\ ValidD(arg.D)

\* C22: in every pass of the loop of pell_min_solution on a valid D the
\* divisor d is strictly positive when it divides, the division
\* (D - m'*m') / d of the update leaves no remainder, and the new d is
\* strictly positive again, so that a = (a0 + m') / d' divides by no zero.
C22_DivisionsExact ==
    MinInLoop =>
        LET m_next == cf.d * cf.a - cf.m
            num == cf.D - m_next * m_next
        IN  /\ cf.d > 0
            /\ num % cf.d = 0
            /\ num > 0
            /\ ~CfFound(cf) =>
                  /\ CfStep(cf).d * cf.d = num
                  /\ CfStep(cf).d > 0

\* the loop on D = 7 after one pass: m = 2, d = 3, and the next update
\* divides 7 - 1*1 by 3
C22_Witness ==
    /\ MinInLoop
    /\ arg.D = 7
    /\ iters = 1
    /\ cf.m = 2
    /\ cf.d = 3
    /\ cf.a = 1
    /\ CfStep(cf).d = 2

\* C23: in every loop state of pell_min_solution on a valid D the surd
\* parameters are bounded by a0 = isqrt_u64(D): 0 <= m <= a0,
\* 1 <= d <= 2*a0 and 1 <= a <= 2*a0; hence d*a, m*m and a0 + m are at
\* most 4*a0*a0, far inside the signed 128-bit type since a0 < 2^32.
C23_SurdParametersBounded ==
    MinInLoop =>
        /\ cf.a0 = isqrt_u64(arg.D)
        /\ 0 <= cf.m /\ cf.m <= cf.a0
        /\ 1 <= cf.d /\ cf.d <= 2 * cf.a0
        /\ 1 <= cf.a /\ cf.a <= 2 * cf.a0
        /\ cf.d * cf.a <= 4 * cf.a0 * cf.a0
        /\ cf.m * cf.m <= 4 * cf.a0 * cf.a0
        /\ cf.a0 + cf.m <= 4 * cf.a0 * cf.a0

\* the loop on D = 13 after five passes, one period: m is at its bound
\* a0 = 3 and a at its bound 2*a0 = 6
C23_Witness ==
    /\ MinInLoop
    /\ arg.D = 13
    /\ iters = 5
    /\ cf.a0 = 3
    /\ cf.m = 3
    /\ cf.d = 1
    /\ cf.a = 6

\* C24: at the i-th evaluation (i = 0, 1, ...) of the test of the loop of
\* pell_min_solution, p*p - D*q*q = (-1)^(i+1) * d_next, d_next being the
\* d the update that follows computes; so the test passes exactly at an odd
\* i whose d_next is 1, the first such being where the loop returns, and
\* p*q_prev1 - q*p_prev1 is +1 or -1.
C24_ConvergentNorm ==
    MinInLoop =>
        LET d_next == CfStep(cf).d
            det == BigSub(BigMul(cf.p, cf.q_prev1), BigMul(cf.q, cf.p_prev1))
        IN  /\ CfLhs(cf) = BigFrom(IF iters % 2 = 0 THEN -d_next ELSE d_next)
            /\ CfFound(cf) <=> (iters % 2 = 1 /\ d_next = 1)
            /\ det = BigFrom(IF iters % 2 = 0 THEN -1 ELSE 1)
            /\ det \in { BigOne, BigNeg(BigOne) }

\* the loop on D = 13 at the test of index 4: (p, q) = (18, 5) has
\* p*p - 13*q*q = -1, and the test does not pass
C24_Witness ==
    /\ MinInLoop
    /\ arg.D = 13
    /\ iters = 4
    /\ cf.p = BigFrom(18)
    /\ cf.q = BigFrom(5)
    /\ CfLhs(cf) = BigFrom(-1)
    /\ CfStep(cf).d = 1
    /\ ~CfFound(cf)

\* floor(log2(k)) for k >= 1
RECURSIVE Log2Floor(_)
Log2Floor(k) == IF k <= 1 THEN 0 ELSE 1 + Log2Floor(k \div 2)

\* (x1 + y1*sqrt(D))^n as a pair, (1, 0) for n = 0
Power(D, x1, y1, n) ==
    IF n = 0 THEN << BigOne, BigZero >> ELSE Recurrence(D, x1, y1, n - 1)

\* C25: for every k >= 2 the while loop of pell_solution_k ends after
\* exactly floor(log2(k)) + 1 passes: exp is halved in every pass, the
\* base is squared once in every pass, and the accumulator is multiplied
\* on the set bits of k only, being the power of the bits already read.
C25_LogarithmicPasses ==
    /\ (op = "k" /\ pc = "k_loop") =>
          /\ arg.k >= 2
          /\ iters <= Log2Floor(arg.k) + 1
          /\ ex.exp = arg.k \div (2 ^ iters)
          /\ << ex.base_x, ex.base_y >>
                = Power(arg.D, arg.x1, arg.y1, 2 ^ iters)
          /\ << ex.x, ex.y >>
                = Power(arg.D, arg.x1, arg.y1, arg.k % (2 ^ iters))
    /\ (KReturned /\ arg.k >= 2) =>
          /\ iters = Log2Floor(arg.k) + 1
          /\ ex.exp = 0

\* pell_solution_k(2, 3, 2, 6) has returned after three passes
C25_Witness ==
    /\ KReturned
    /\ arg.D = 2
    /\ arg.x1 = BigFrom(3)
    /\ arg.y1 = BigFrom(2)
    /\ arg.k = 6
    /\ iters = 3
    /\ result = Ok(<< BigFrom(19601), BigFrom(13860) >>)

\* a^n for n >= 0
RECURSIVE BigPow(_, _)
BigPow(a, n) == IF n = 0 THEN BigOne ELSE BigMul(a, BigPow(a, n - 1))

\* C26: pell_solution_k validates k alone: for every k >= 1 it returns Ok
\* for every D, 0, 1 and perfect squares included, and every pair
\* (x1, y1), solution of the Pell equation or not; for k = 1 the pair is
\* returned as it is, and the pair (x, y) returned has
\* x*x - D*y*y = (x1*x1 - D*y1*y1)^k.
C26_KValidatesOnlyK ==
    (KReturned /\ arg.k >= 1) =>
        /\ result.tag = "Ok"
        /\ arg.k = 1 => result.val = << arg.x1, arg.y1 >>
        /\ Norm(arg.D, result.val[1], result.val[2])
              = BigPow(Norm(arg.D, arg.x1, arg.y1), arg.k)

\* pell_solution_k(4, 1, 1, 3) has returned (13, 7), of norm -27 = (-3)^3
C26_Witness ==
    /\ KReturned
    /\ arg.D = 4
    /\ arg.x1 = BigFrom(1)
    /\ arg.y1 = BigFrom(1)
    /\ arg.k = 3
    /\ result = Ok(<< BigFrom(13), BigFrom(7) >>)
    /\ Norm(4, result.val[1], result.val[2]) = BigFrom(-27)

\* the product (xj + yj*sqrt(D)) * (xk + yk*sqrt(D)) as a pair
Compose(D, a, b) ==
    << BigAdd(BigMul(a[1], b[1]), BigMul(BigFrom(D), BigMul(a[2], b[2]))),
       BigAdd(BigMul(a[1], b[2]), BigMul(a[2], b[1])) >>

\* C27: solutions compose under the multiplication of the ring: for every
\* D, (x1, y1) and j, k >= 1, pell_solution_k(.., j+k) is
\* (xj*xk + D*yj*yk, xj*yk + yj*xk) with (xj, yj) and (xk, yk) the values
\* for j and k; for j + k = 2 that is (x1*x1 + D*y1*y1, 2*x1*y1).
C27_SolutionsCompose ==
    (KReturned /\ arg.k >= 2) =>
        /\ \A j \in 1..(arg.k - 1) :
              result.val =
                 Compose(arg.D,
                         pell_solution_k(arg.D, arg.x1, arg.y1, j).val,
                         pell_solution_k(arg.D, arg.x1, arg.y1, arg.k - j).val)
        /\ arg.k = 2 =>
              result.val =
                 << BigAdd(BigMul(arg.x1, arg.x1),
                           BigMul(BigFrom(arg.D), BigMul(arg.y1, arg.y1))),
                    BigMul(BigFrom(2), BigMul(arg.x1, arg.y1)) >>

\* pell_solution_k(3, 2, 1, 5) has returned (362, 209), the product of the
\* solutions of index 2 and 3, (7, 4) and (26, 15)
C27_Witness ==
    /\ KReturned
    /\ arg.D = 3
    /\ arg.x1 = BigFrom(2)
    /\ arg.y1 = BigFrom(1)
    /\ arg.k = 5
    /\ result = Ok(<< BigFrom(362), BigFrom(209) >>)
    /\ result.val = Compose(3, << BigFrom(7), BigFrom(4) >>,
                            << BigFrom(26), BigFrom(15) >>)

\* C28: for every valid D with fundamental solution (x1, y1) and every
\* k >= 2, the solutions more than double from one index to the next:
\* x_k > 2 * x_(k-1), x_k being the first component of
\* pell_solution_k(D, x1, y1, k).
C28_SolutionsMoreThanDouble ==
    (/\ KReturned
     /\ arg.k >= 2
     /\ ValidD(arg.D)
     /\ pell_min_solution(arg.D) = Ok(<< arg.x1, arg.y1 >>)) =>
        LET before == pell_solution_k(arg.D, arg.x1, arg.y1, arg.k - 1)
        IN  /\ result.tag = "Ok"
            /\ before.tag = "Ok"
            /\ BigLt(BigMul(BigFrom(2), before.val[1]), result.val[1])

\* pell_solution_k(3, 2, 1, 2) has returned (7, 4), and 7 > 2 * 2
C28_Witness ==
    /\ KReturned
    /\ arg.D = 3
    /\ arg.x1 = BigFrom(2)
    /\ arg.y1 = BigFrom(1)
    /\ arg.k = 2
    /\ result = Ok(<< BigFrom(7), BigFrom(4) >>)

\* C29: in every state of a sequence, whatever next() and reset() were
\* called, the current pair is pell_solution_k(D, x1, y1, position), with
\* (x1, y1) the fundamental solution of the D of the sequence, and it
\* satisfies x*x - D*y*y = 1.
C29_CurrentIsSolutionOfPosition ==
    IterLive =>
        /\ ValidD(it.D)
        /\ Ok(<< it.x1, it.y1 >>) = pell_min_solution(it.D)
        /\ Ok(<< it.x, it.y >>)
              = pell_solution_k(it.D, it.x1, it.y1, current_k(it))
        /\ Norm(it.D, it.x, it.y) = BigOne
        /\ verify_pell_solution(it.D, it.x, it.y)

\* on PellSolutionIterator(6): reset() after one next(), then two next();
\* the position is 3 and the current pair (485, 198)
C29_Witness ==
    /\ IterLive
    /\ it.D = 6
    /\ Len(earlier) = 1
    /\ Len(run) = 2
    /\ current_k(it) = 3
    /\ it.x = BigFrom(485)
    /\ it.y = BigFrom(198)

\* C30: next() and reset() leave the D and the fundamental solution of the
\* sequence as they are, reset() computing nothing anew; reset() is
\* idempotent, a second reset() in a row leaving the state the first one
\* left, and reset() on a fresh sequence changes nothing of it.
C30_FrameAndIdempotentReset ==
    [][IterLive =>
          /\ it'.D = it.D
          /\ it'.x1 = it.x1
          /\ it'.y1 = it.y1
          /\ IterRewind(it') = IterRewind(it)
          /\ IterRewind(IterRewind(it)) = IterRewind(it)
          /\ it = IterInit(it.D) => IterRewind(it) = it]_vars

\* on PellSolutionIterator(2): reset() after two next() has put the
\* sequence back into the state construction left it in
C30_Witness ==
    /\ IterLive
    /\ it.D = 2
    /\ Len(earlier) = 2
    /\ run = << >>
    /\ it = IterInit(2)
    /\ it = IterRewind(it)

=============================================================================
